---- MODULE Spec2Model ----
(***************************************************************************)
(* A model of the fiqh ingestion scripts.                                  *)
(*                                                                         *)
(*   Spec      - scripts/generate_embeddings.py: repeated runs of main()   *)
(*               against one corpus file and one persistent ChromaDB       *)
(*               collection, with provider/store faults and the operator's *)
(*               answer to the reset prompt as environment choices.        *)
(*   LiveSpec  - Spec with weak fairness: a run always takes its next      *)
(*               step and the indexer is always invoked again.             *)
(*   SpecClean - scripts/process_texts.py: clean_text applied once and     *)
(*               twice to bounded input strings.                           *)
(*   FnSpec    - one call of a function on a bounded input: the evidence   *)
(*               extractor, process_hadith_file / process_fatwa_file, the  *)
(*               two topic classifiers, create_embedding_text, and the     *)
(*               hadith converter followed by process_hadith_file.         *)
(*   AggSpec   - scripts/process_texts.py: one run of process_all_data     *)
(*               over a bounded tree of raw files, one step per file.      *)
(*                                                                         *)
(* In Spec an entry of the corpus is represented by its 'id' (a number     *)
(* standing for the id string); two entries with the same number are two   *)
(* entries of the corpus file that carry the same id.                      *)
(***************************************************************************)
EXTENDS Integers, Sequences, FiniteSets, TLC

(***************************************************************************)
(* Program constants and bounds                                            *)
(***************************************************************************)
\* generate_embeddings.py:28
BATCH_SIZE == 100

\* Longest corpus considered (two full batches and a half one).
MaxCorpus == 250

\* Environment faults (missing key or file, prompt/provider/store errors)
\* injected over a whole behaviour: faults eventually stop.
MaxFaults == 2

\* Times the operator answers 'y' to the reset prompt over a behaviour.
MaxResets == 1

\* Tokens concatenated to form an input string of clean_text.
MaxTokens == 3

(***************************************************************************)
(* Helpers                                                                 *)
(***************************************************************************)
Min(a, b) == IF a < b THEN a ELSE b

CeilDiv(a, b) == (a + b - 1) \div b

Range(s) == {s[k] : k \in DOMAIN s}

HasDuplicates(s) == Cardinality(Range(s)) < Len(s)

RECURSIVE Flatten(_)
Flatten(ss) == IF ss = <<>> THEN <<>> ELSE Head(ss) \o Flatten(Tail(ss))

EmptyStore == [x \in {} |-> 0]

(***************************************************************************)
(* State                                                                   *)
(***************************************************************************)
VARIABLES
    \* ---- persistent across runs (files, environment, vector store)
    corpus,         \* ids of the entries of fiqh_database.json, in file order
    dirExists,      \* CHROMA_DIR exists
    collExists,     \* the collection CHROMA_COLLECTION exists
    store,          \* the collection: id -> record (stamped with the generation)
    gen,            \* collection generation: number of resets so far
    faults,         \* environment faults injected so far
    prevClean,      \* the previous run processed every batch without failure
    \* ---- one run of main()
    pc,             \* position in main()
    keySet,         \* OPENAI_API_KEY is set for this run
    fileExists,     \* PROCESSED_DATA_FILE exists for this run
    entries,        \* main.entries
    response,       \* the operator's answer to the reset prompt ("none": not asked)
    existing_ids,   \* main.existing_ids
    pending,        \* main.entries_to_process
    i,              \* the loop variable of the batch loop
    log,            \* external calls of this run, in order
    startStore,     \* store when the run started
    startDir,       \* dirExists when the run started
    startColl,      \* collExists when the run started
    \* ---- clean_text harness
    cstage,         \* "off", "input", "once", "twice"
    text0,          \* the input string
    text1,          \* clean_text(text0)
    text2,          \* clean_text(text1)
    \* ---- one application of a pure function of the scripts
    fn,             \* the function applied ("none": not yet, "off": harness unused)
    fin,            \* its argument(s)
    fout,           \* its return value
    \* ---- one run of process_texts.py: process_all_data()
    raw,            \* the raw tree: files of raw/hadith, its subdirectories, raw/fatwas
    apc,            \* position in process_all_data()
    aidx,           \* files of the current loop already processed
    all_entries,    \* process_all_data.all_entries
    sources_info,   \* process_all_data.sources_info
    outDb,          \* OUTPUT_FILE (fiqh_database.json) as written
    outSources      \* SOURCES_FILE (sources.json) as written

ivars == <<corpus, dirExists, collExists, store, gen, faults, prevClean, pc,
           keySet, fileExists, entries, response, existing_ids, pending, i,
           log, startStore, startDir, startColl>>

cvars == <<cstage, text0, text1, text2>>

fvars == <<fn, fin, fout>>

avars == <<raw, apc, aidx, all_entries, sources_info, outDb, outSources>>

vars == <<ivars, cvars, fvars, avars>>

(***************************************************************************)
(* The corpus file.  process_texts.py copies each raw record's 'id'        *)
(* (hadith.get('id', uuid4()), line 128/174) and concatenates the files    *)
(* (all_entries.extend, lines 216/227/240) without comparing ids, so a     *)
(* corpus may carry an id twice (scrape_sunnah_com.py:65 gives every        *)
(* hadith without a number the id "<collection>_unknown", and it and        *)
(* convert_hadith.py:162 both write "<collection>_<n>" ids into raw/hadith):*)
(* next to each other ("near") or in different batches ("far").            *)
(***************************************************************************)
CorpusSizes == {0, 1, 2, BATCH_SIZE, BATCH_SIZE + 1, (5 * BATCH_SIZE) \div 2, MaxCorpus}

MakeCorpus(n, dup) ==
    [p \in 1..n |->
        IF dup = "near" /\ p = 2 THEN 1
        ELSE IF dup = "far" /\ p = n THEN 1
        ELSE p]

Corpora ==
    {MakeCorpus(n, "none") : n \in CorpusSizes}
    \cup {MakeCorpus(n, "near") : n \in {m \in CorpusSizes : m >= 2}}
    \cup {MakeCorpus(n, "far") : n \in {m \in CorpusSizes : m > BATCH_SIZE}}

(***************************************************************************)
(* Pure parts of generate_embeddings.py                                    *)
(***************************************************************************)
\* load_fiqh_database: raises FileNotFoundError when the file is missing.
load_fiqh_database_Lenient(exists, contents) ==
    [raised |-> FALSE, data |-> IF exists THEN contents ELSE <<>>]

load_fiqh_database(exists, contents) ==
    IF ~exists THEN [raised |-> TRUE, data |-> <<>>]
    ELSE [raised |-> FALSE, data |-> contents]

\* main, line 178: `if not openai_key: raise ValueError`.
KeyMissing(key) == ~key

\* setup_chromadb, line 115: response.lower() == 'y'.
Lower(r) == IF r = "Y" THEN "y" ELSE r

Responses == {"y", "Y", "n", ""}

ResetRequested_DefaultYes(r) == Lower(r) # "n"

ResetRequested(r) == Lower(r) = "y"

\* main, line 204: [e for e in entries if e['id'] not in existing_ids].
EntriesToProcess(ents, existing) == SelectSeq(ents, LAMBDA e : e \notin existing)

\* main, line 215: entries_to_process[i:i + BATCH_SIZE].
Batch_Short(pend, idx) == SubSeq(pend, idx + 1, Min(idx + BATCH_SIZE - 1, Len(pend)))

Batch(pend, idx) == SubSeq(pend, idx + 1, Min(idx + BATCH_SIZE, Len(pend)))

\* main, lines 230-233: the except clause ends the loop (break).
OnBatchError_Continue(idx, n) ==
    IF idx + BATCH_SIZE < n THEN [pc |-> "embed", i |-> idx + BATCH_SIZE]
    ELSE [pc |-> "summary", i |-> idx]

OnBatchError(idx, n) == [pc |-> "summary", i |-> idx]

\* main, line 214: range(0, len(entries_to_process), BATCH_SIZE) after batch idx.
NextIteration_Requery(idx, n) ==
    IF idx + BATCH_SIZE < n THEN [pc |-> "get_ids", i |-> idx + BATCH_SIZE]
    ELSE [pc |-> "summary", i |-> idx]

NextIteration(idx, n) ==
    IF idx + BATCH_SIZE < n THEN [pc |-> "embed", i |-> idx + BATCH_SIZE]
    ELSE [pc |-> "summary", i |-> idx]

\* main, lines 225-228: after the store write the run sleeps before the loop
\* goes on.
AfterAdd_NoDelay(idx, n) == NextIteration(idx, n)

AfterAdd(idx, n) == [pc |-> "sleep", i |-> idx]

\* add_to_chromadb, lines 162-167: collection.add(ids=...).  ChromaDB
\* validates the ids of one call to be unique (DuplicateIDError) before it
\* writes anything; for an id that the collection already holds it either
\* raises or leaves the existing record alone, depending on its version
\* (ignoreExisting), and never overwrites.  A call writes all or nothing.
AddRaises(st, ids, ignoreExisting) ==
    \/ HasDuplicates(ids)
    \/ (~ignoreExisting /\ Range(ids) \cap DOMAIN st # {})

AddResult(st, ids, g) ==
    [x \in DOMAIN st \cup Range(ids) |->
        IF x \in DOMAIN st THEN st[x] ELSE [id |-> x, gen |-> g]]

Event(op, ids, ok) == [op |-> op, ids |-> ids, ok |-> ok]

(***************************************************************************)
(* Initial state: nothing has run, the vector store directory is absent.   *)
(***************************************************************************)
IndexerIdle ==
    /\ dirExists = FALSE
    /\ collExists = FALSE
    /\ store = EmptyStore
    /\ gen = 0
    /\ faults = 0
    /\ prevClean = FALSE
    /\ pc = "idle"
    /\ keySet = TRUE
    /\ fileExists = TRUE
    /\ entries = <<>>
    /\ response = "none"
    /\ existing_ids = {}
    /\ pending = <<>>
    /\ i = 0
    /\ log = <<>>
    /\ startStore = EmptyStore
    /\ startDir = FALSE
    /\ startColl = FALSE

CleanOff ==
    /\ cstage = "off"
    /\ text0 = <<>>
    /\ text1 = <<>>
    /\ text2 = <<>>

FnOff ==
    /\ fn = "off"
    /\ fin = <<>>
    /\ fout = <<>>

NoFile == [written |-> FALSE, data |-> <<>>]

AggOff ==
    /\ raw = <<>>
    /\ apc = "off"
    /\ aidx = 0
    /\ all_entries = <<>>
    /\ sources_info = <<>>
    /\ outDb = NoFile
    /\ outSources = NoFile

Init ==
    /\ corpus \in Corpora
    /\ IndexerIdle
    /\ CleanOff
    /\ FnOff
    /\ AggOff

(***************************************************************************)
(* One run of main(), step by step                                         *)
(***************************************************************************)
RunOver == pc \in {"idle", "done", "aborted"}

BatchFailed == \E k \in DOMAIN log : log[k].op \in {"embed", "add"} /\ ~log[k].ok

\* The script is invoked: the environment of this run is fixed.
StartRun ==
    /\ RunOver
    /\ \E key \in BOOLEAN, file \in BOOLEAN :
        /\ faults + (IF key THEN 0 ELSE 1) + (IF file THEN 0 ELSE 1) <= MaxFaults
        /\ faults' = faults + (IF key THEN 0 ELSE 1) + (IF file THEN 0 ELSE 1)
        /\ keySet' = key
        /\ fileExists' = file
    /\ prevClean' = (pc = "done" /\ \A k \in DOMAIN log : log[k].ok)
    /\ pc' = "check_key"
    /\ entries' = <<>>
    /\ response' = "none"
    /\ existing_ids' = {}
    /\ pending' = <<>>
    /\ i' = 0
    /\ log' = <<>>
    /\ startStore' = store
    /\ startDir' = dirExists
    /\ startColl' = collExists
    /\ UNCHANGED <<cvars, fvars, avars>>
    /\ UNCHANGED <<corpus, dirExists, collExists, store, gen>>

\* main, lines 176-186.
CheckKey ==
    /\ pc = "check_key"
    /\ pc' = IF KeyMissing(keySet) THEN "aborted" ELSE "load"
    /\ UNCHANGED <<cvars, fvars, avars>>
    /\ UNCHANGED <<corpus, dirExists, collExists, store, gen, faults, prevClean,
                   keySet, fileExists, entries, response, existing_ids, pending,
                   i, log, startStore, startDir, startColl>>

\* main, line 189.
LoadDatabase ==
    /\ pc = "load"
    /\ LET r == load_fiqh_database(fileExists, corpus) IN
        /\ pc' = IF r.raised THEN "aborted" ELSE "setup"
        /\ entries' = r.data
    /\ UNCHANGED <<cvars, fvars, avars>>
    /\ UNCHANGED <<corpus, dirExists, collExists, store, gen, faults, prevClean,
                   keySet, fileExists, response, existing_ids, pending,
                   i, log, startStore, startDir, startColl>>

\* setup_chromadb, lines 99-105 and 122-125: no collection yet, so
\* get_collection raises and the collection is created.
SetupCreate ==
    /\ pc = "setup"
    /\ ~collExists
    /\ dirExists' = TRUE
    /\ collExists' = TRUE
    /\ store' = EmptyStore
    /\ pc' = "get_ids"
    /\ UNCHANGED <<cvars, fvars, avars>>
    /\ UNCHANGED <<corpus, gen, faults, prevClean, keySet, fileExists, entries,
                   response, existing_ids, pending, i, log, startStore, startDir,
                   startColl>>

\* setup_chromadb, lines 108-120: the collection exists and the operator
\* is asked whether to reset it.
SetupPrompt ==
    /\ pc = "setup"
    /\ collExists
    /\ \E r \in Responses :
        /\ response' = r
        /\ IF ResetRequested(r)
           THEN /\ gen < MaxResets
                /\ gen' = gen + 1
                /\ store' = EmptyStore
           ELSE UNCHANGED <<gen, store>>
    /\ dirExists' = TRUE
    /\ pc' = "get_ids"
    /\ UNCHANGED <<cvars, fvars, avars>>
    /\ UNCHANGED <<corpus, collExists, faults, prevClean, keySet, fileExists,
                   entries, existing_ids, pending, i, log, startStore, startDir,
                   startColl>>

\* setup_chromadb, lines 114 and 122-124: input() itself raises (no
\* terminal); the except clause then calls create_collection for a name
\* that exists, which raises out of main.
SetupPromptError ==
    /\ pc = "setup"
    /\ collExists
    /\ faults < MaxFaults
    /\ faults' = faults + 1
    /\ dirExists' = TRUE
    /\ pc' = "aborted"
    /\ UNCHANGED <<cvars, fvars, avars>>
    /\ UNCHANGED <<corpus, collExists, store, gen, prevClean, keySet, fileExists,
                   entries, response, existing_ids, pending, i, log, startStore,
                   startDir, startColl>>

\* main, lines 194-211: collection.get(), the filter and the early return.
\* When collection.get() raises, except/pass leaves existing_ids empty.
GetExisting(ok) ==
    /\ pc = "get_ids"
    /\ LET ex == IF ok THEN DOMAIN store ELSE {}
           todo == EntriesToProcess(entries, ex)
       IN
        /\ existing_ids' = ex
        /\ pending' = todo
        /\ pc' = IF todo = <<>> THEN "done" ELSE "embed"
    /\ log' = Append(log, Event("get", <<>>, ok))
    /\ i' = 0

GetExistingOk ==
    /\ GetExisting(TRUE)
    /\ UNCHANGED <<cvars, fvars, avars>>
    /\ UNCHANGED <<corpus, dirExists, collExists, store, gen, faults, prevClean,
                   keySet, fileExists, entries, response, startStore, startDir,
                   startColl>>

GetExistingError ==
    /\ faults < MaxFaults
    /\ faults' = faults + 1
    /\ GetExisting(FALSE)
    /\ UNCHANGED <<cvars, fvars, avars>>
    /\ UNCHANGED <<corpus, dirExists, collExists, store, gen, prevClean,
                   keySet, fileExists, entries, response, startStore, startDir,
                   startColl>>

\* main, lines 215-222: one provider call for the whole batch.
EmbedOk ==
    /\ pc = "embed"
    /\ log' = Append(log, Event("embed", Batch(pending, i), TRUE))
    /\ pc' = "add"
    /\ UNCHANGED <<cvars, fvars, avars>>
    /\ UNCHANGED <<corpus, dirExists, collExists, store, gen, faults, prevClean,
                   keySet, fileExists, entries, response, existing_ids, pending,
                   i, startStore, startDir, startColl>>

\* main, lines 222 and 230-233: the provider call raises.
EmbedError ==
    /\ pc = "embed"
    /\ faults < MaxFaults
    /\ faults' = faults + 1
    /\ log' = Append(log, Event("embed", Batch(pending, i), FALSE))
    /\ LET nxt == OnBatchError(i, Len(pending)) IN
        /\ pc' = nxt.pc
        /\ i' = nxt.i
    /\ UNCHANGED <<cvars, fvars, avars>>
    /\ UNCHANGED <<corpus, dirExists, collExists, store, gen, prevClean,
                   keySet, fileExists, entries, response, existing_ids, pending,
                   startStore, startDir, startColl>>

\* main, line 225: add_to_chromadb writes the batch.
AddOk ==
    /\ pc = "add"
    /\ \E ignoreExisting \in BOOLEAN :
        ~AddRaises(store, Batch(pending, i), ignoreExisting)
    /\ store' = AddResult(store, Batch(pending, i), gen)
    /\ log' = Append(log, Event("add", Batch(pending, i), TRUE))
    /\ LET nxt == AfterAdd(i, Len(pending)) IN
        /\ pc' = nxt.pc
        /\ i' = nxt.i
    /\ UNCHANGED <<cvars, fvars, avars>>
    /\ UNCHANGED <<corpus, dirExists, collExists, gen, faults, prevClean,
                   keySet, fileExists, entries, response, existing_ids, pending,
                   startStore, startDir, startColl>>

\* main, lines 225 and 230-233: collection.add rejects the batch.
AddRejected ==
    /\ pc = "add"
    /\ \E ignoreExisting \in BOOLEAN :
        AddRaises(store, Batch(pending, i), ignoreExisting)
    /\ log' = Append(log, Event("add", Batch(pending, i), FALSE))
    /\ LET nxt == OnBatchError(i, Len(pending)) IN
        /\ pc' = nxt.pc
        /\ i' = nxt.i
    /\ UNCHANGED <<cvars, fvars, avars>>
    /\ UNCHANGED <<corpus, dirExists, collExists, store, gen, faults, prevClean,
                   keySet, fileExists, entries, response, existing_ids, pending,
                   startStore, startDir, startColl>>

\* main, lines 225 and 230-233: the store is unreachable or fails.
AddError ==
    /\ pc = "add"
    /\ faults < MaxFaults
    /\ faults' = faults + 1
    /\ log' = Append(log, Event("add", Batch(pending, i), FALSE))
    /\ LET nxt == OnBatchError(i, Len(pending)) IN
        /\ pc' = nxt.pc
        /\ i' = nxt.i
    /\ UNCHANGED <<cvars, fvars, avars>>
    /\ UNCHANGED <<corpus, dirExists, collExists, store, gen, prevClean,
                   keySet, fileExists, entries, response, existing_ids, pending,
                   startStore, startDir, startColl>>

\* main, lines 227-228 and the loop header, line 214.
RateLimit ==
    /\ pc = "sleep"
    /\ log' = Append(log, Event("sleep", <<>>, TRUE))
    /\ LET nxt == NextIteration(i, Len(pending)) IN
        /\ pc' = nxt.pc
        /\ i' = nxt.i
    /\ UNCHANGED <<cvars, fvars, avars>>
    /\ UNCHANGED <<corpus, dirExists, collExists, store, gen, faults, prevClean,
                   keySet, fileExists, entries, response, existing_ids, pending,
                   startStore, startDir, startColl>>

\* main, lines 235-242: collection.count() and the summary.
Summary ==
    /\ pc = "summary"
    /\ pc' = "done"
    /\ UNCHANGED <<cvars, fvars, avars>>
    /\ UNCHANGED <<corpus, dirExists, collExists, store, gen, faults, prevClean,
                   keySet, fileExists, entries, response, existing_ids, pending,
                   i, log, startStore, startDir, startColl>>

Next ==
    \/ StartRun
    \/ CheckKey
    \/ LoadDatabase
    \/ SetupCreate
    \/ SetupPrompt
    \/ SetupPromptError
    \/ GetExistingOk
    \/ GetExistingError
    \/ EmbedOk
    \/ EmbedError
    \/ AddOk
    \/ AddRejected
    \/ AddError
    \/ RateLimit
    \/ Summary

Spec == Init /\ [][Next]_vars

\* A process runs to its end, and the operator invokes the script again
\* after every run.
LiveSpec == Init /\ [][Next]_vars /\ WF_vars(Next)

(***************************************************************************)
(* Observations on a run                                                   *)
(***************************************************************************)
Embeds == SelectSeq(log, LAMBDA e : e.op = "embed")

Adds == SelectSeq(log, LAMBDA e : e.op = "add")

RunEnded == pc \in {"done", "aborted"}

\* The run has queried the store and filtered the corpus (line 204).
Filtered == log # <<>>

NumBatches == CeilDiv(Len(pending), BATCH_SIZE)

BatchAt(m) == Batch(pending, (m - 1) * BATCH_SIZE)

IdsUpTo(j) == UNION {Range(BatchAt(m)) : m \in 1..j}

\* The batch whose embedding call or store write failed (0: none).
FailedBatch == IF BatchFailed THEN Len(Embeds) ELSE 0

Preserved ==
    \A x \in DOMAIN startStore : x \in DOMAIN store /\ store[x] = startStore[x]

AllIndexed == Range(corpus) \subseteq DOMAIN store

(***************************************************************************)
(* Claims about the batch indexer                                          *)
(***************************************************************************)
\* C1 (as stated, for the runs in which the operator keeps the collection):
\* after a run that processed every batch without failure, the next run on
\* the same corpus makes no embedding-provider call and no store write, and
\* leaves count() as it was.
C1_Resumable ==
    (prevClean /\ pc # "idle" /\ Lower(response) # "y") =>
        /\ Embeds = <<>>
        /\ Adds = <<>>
        /\ Cardinality(DOMAIN store) = Cardinality(DOMAIN startStore)

\* C2: once the embedding call or the store write of a batch has failed, the
\* run makes no further embedding call and no further store write.
C2_FailStop ==
    \A k \in DOMAIN log :
        (log[k].op \in {"embed", "add"} /\ ~log[k].ok) =>
            \A j \in DOMAIN log : j > k => log[j].op \notin {"embed", "add"}

\* C2 witness: a run that halted in a batch with further batches pending.
C2_Witness ==
    /\ pc = "done"
    /\ BatchFailed
    /\ FailedBatch < NumBatches

\* C3 (as stated, for the runs in which the operator keeps the collection):
\* the entries a run embeds and writes are exactly the corpus entries whose
\* id is not in the store when the run starts, whatever the outcome of the
\* existing-id query.
C3_SkipIndexed ==
    (Filtered /\ Lower(response) # "y") =>
        /\ pending = SelectSeq(corpus, LAMBDA e : e \notin DOMAIN startStore)
        /\ \A k \in DOMAIN log :
            log[k].op \in {"embed", "add"} =>
                Range(log[k].ids) \cap DOMAIN startStore = {}

\* C4 (as stated): every id in the store when a run starts is still in the
\* store, with its record unchanged, when the run ends, on every path through
\* the store set-up and the batch loop.
C4_CommittedSurvives == RunEnded => Preserved

\* C4 (amended): the same, on every path on which the operator does not
\* answer 'y' (in either case) to the reset prompt.
C4_SurvivesWithoutReset == (RunEnded /\ Lower(response) # "y") => Preserved

\* C4 witness: a run that found committed records, was told not to reset,
\* and wrote a further batch.
C4_Witness ==
    /\ pc = "done"
    /\ response \in {"n", ""}
    /\ startStore # EmptyStore
    /\ \E k \in DOMAIN log : log[k].op = "add" /\ log[k].ok
    /\ Preserved

\* C5 (as stated): when the indexer is invoked again after every run and the
\* provider/store failures stop, eventually every id of the corpus is in the
\* store and from then on every run is a no-op.
C5_EventuallyComplete == <>[](AllIndexed /\ Embeds = <<>> /\ Adds = <<>>)

\* C6 (as stated): the indexer never issues a store write that contains an id
\* already in the store, or an id that occurs twice in the run's pending list.
C6_AtMostOnce ==
    pc = "add" =>
        /\ Range(Batch(pending, i)) \cap DOMAIN store = {}
        /\ ~HasDuplicates(pending)

\* C7: a failure-free run with n pending entries makes ceil(n/100) provider
\* calls and as many store writes; the batches are the consecutive slices of
\* the pending list, cover it, and hold 100 entries each except the last.
C7_BatchPartition ==
    (pc = "done" /\ ~BatchFailed) =>
        /\ Len(Embeds) = CeilDiv(Len(pending), BATCH_SIZE)
        /\ Len(Adds) = Len(Embeds)
        /\ Flatten([k \in DOMAIN Embeds |-> Embeds[k].ids]) = pending
        /\ \A k \in DOMAIN Embeds :
            /\ Adds[k].ids = Embeds[k].ids
            /\ Len(Embeds[k].ids) \in 1..BATCH_SIZE
            /\ k < Len(Embeds) => Len(Embeds[k].ids) = BATCH_SIZE

\* C7 witness: 250 pending entries went out as batches of 100, 100 and 50.
C7_Witness ==
    /\ pc = "done"
    /\ ~BatchFailed
    /\ Len(pending) = (5 * BATCH_SIZE) \div 2
    /\ [k \in DOMAIN Embeds |-> Len(Embeds[k].ids)]
         = <<BATCH_SIZE, BATCH_SIZE, BATCH_SIZE \div 2>>
    /\ Len(Adds) = 3

\* C8 (as stated): at every point of a run the store holds the ids it held
\* at the start of the run plus the ids of batches 1..j for some j; after a
\* failure in batch k, j < k and no id of batch k or a later batch is in the
\* store; after a failure-free run j is the last batch.
C8_PrefixState ==
    Filtered =>
        \E j \in 0..NumBatches :
            /\ DOMAIN store = DOMAIN startStore \cup IdsUpTo(j)
            /\ BatchFailed =>
                /\ j < FailedBatch
                /\ \A m \in FailedBatch..NumBatches :
                    Range(BatchAt(m)) \cap DOMAIN store = {}
            /\ (pc = "done" /\ ~BatchFailed) => j = NumBatches

\* C9: a run whose credential or corpus file is missing aborts before the
\* store directory or the collection is created or modified and before any
\* provider call or store write.
C9_ConfigFatal ==
    (pc # "idle" /\ (~keySet \/ ~fileExists)) =>
        /\ pc \in {"check_key", "load", "aborted"}
        /\ dirExists = startDir
        /\ collExists = startColl
        /\ store = startStore
        /\ log = <<>>

\* C9 witness: the first run ever aborted on a missing corpus file, with the
\* credential present and no store directory created.
C9_Witness ==
    /\ pc = "aborted"
    /\ ~startDir
    /\ ~dirExists
    /\ keySet
    /\ ~fileExists

\* C20: a run asks the store for the indexed ids at most once, as its first
\* external call and so before any embedding-provider call; a run that gets
\* past the store set-up asks exactly once, whatever the number of batches.
GetEvents == {k \in DOMAIN log : log[k].op = "get"}

C20_FetchedOnce ==
    /\ Cardinality(GetEvents) <= 1
    /\ Filtered => GetEvents = {1}
    /\ pc \in {"embed", "add", "sleep", "summary", "done"} => GetEvents = {1}

\* C20 witness: a finished run of three batches that asked once.
C20_Witness ==
    /\ pc = "done"
    /\ Len(Embeds) = 3
    /\ Len(Adds) = 3
    /\ GetEvents = {1}

\* The positions of the provider calls in the log of the run.
EmbedEvents == {k \in DOMAIN log : log[k].op = "embed"}

\* C21: every provider call of a run but the first comes directly after a
\* completed delay, which comes directly after a successful store write of
\* the batch before, which comes directly after the successful provider call
\* for that same batch; so no two provider calls are made without a store
\* write and a delay between them, and the batches follow one another.
C21_SequentialBatches ==
    \A k \in EmbedEvents :
        (\E j \in EmbedEvents : j < k) =>
            /\ k >= 4
            /\ log[k - 1].op = "sleep" /\ log[k - 1].ok
            /\ log[k - 2].op = "add" /\ log[k - 2].ok
            /\ log[k - 3].op = "embed" /\ log[k - 3].ok
            /\ log[k - 2].ids = log[k - 3].ids
            /\ log[k].ids # log[k - 3].ids

\* C21 witness: a run in its third provider call, two batches written and two
\* delays behind it.
C21_Witness ==
    /\ pc = "add"
    /\ Cardinality(EmbedEvents) = 3
    /\ Len(Adds) = 2
    /\ Len(SelectSeq(log, LAMBDA e : e.op = "sleep")) = 2

(***************************************************************************)
(* scripts/process_texts.py: clean_text.  A string is a sequence of        *)
(* one-character strings.                                                  *)
(***************************************************************************)
Whitespace == {" ", "\n"}

\* old occurs in s at position pos: s[pos - 1:].startswith(old).
StartsAt(s, pos, old) ==
    /\ pos + Len(old) - 1 <= Len(s)
    /\ \A k \in DOMAIN old : s[pos + k - 1] = old[k]

\* The characters c of the items [keep, c] that are kept, in order (SubSeq
\* makes the result an explicit sequence).
Kept(items) ==
    LET sel == SelectSeq(items, LAMBDA e : e.keep)
    IN  SubSeq([k \in DOMAIN sel |-> sel[k].c], 1, Len(sel))

\* str.lstrip()
RECURSIVE DropWhitespace(_)
DropWhitespace(s) ==
    IF s # <<>> /\ Head(s) \in Whitespace THEN DropWhitespace(Tail(s)) ELSE s

\* re.sub(r'\s+', ' ', text), line 27: every run of whitespace becomes one
\* blank, put at the first position of the run.
CollapseWhitespace(s) ==
    Kept([k \in DOMAIN s |->
            [keep |-> s[k] \notin Whitespace \/ k = 1 \/ s[k - 1] \notin Whitespace,
             c |-> IF s[k] \in Whitespace THEN " " ELSE s[k]]])

\* str.replace(old, new): every occurrence, left to right.  Each old that
\* clean_text replaces has no proper prefix that is also a suffix, so no two
\* occurrences overlap, and each new is one character: it is put at the
\* first position of the occurrence and the other positions are dropped.
ReplaceAll(s, old, new) ==
    Kept([k \in DOMAIN s |->
            [keep |-> \A q \in (k - Len(old) + 1)..(k - 1) :
                          q < 1 \/ ~StartsAt(s, q, old),
             c |-> IF StartsAt(s, k, old) THEN new[1] ELSE s[k]]])

\* Lines 30-34, in this order.
DecodeEntities(s) ==
    LET s1 == ReplaceAll(s, <<"&", "n", "b", "s", "p", ";">>, <<" ">>)
        s2 == ReplaceAll(s1, <<"&", "q", "u", "o", "t", ";">>, <<"\"">>)
        s3 == ReplaceAll(s2, <<"&", "a", "m", "p", ";">>, <<"&">>)
        s4 == ReplaceAll(s3, <<"&", "l", "t", ";">>, <<"<">>)
    IN ReplaceAll(s4, <<"&", "g", "t", ";">>, <<">">>)

\* re.sub(r'<[^>]+>', '', text), line 37: a '<', one or more characters
\* other than '>', and the first '>' after them.  FirstGt is the position of
\* the first '>' after position p (0: none).
FirstGt(s, p) ==
    IF \E k \in (p + 1)..Len(s) : s[k] = ">"
    THEN CHOOSE k \in (p + 1)..Len(s) :
             s[k] = ">" /\ \A j \in (p + 1)..(k - 1) : s[j] # ">"
    ELSE 0

\* Position k lies in a match: between a '<' at or before k and the first
\* '>' after it, at least one character apart.  (A '<' inside a match has
\* the same first '>' as the '<' that opened the match.)
InTag(s, k) ==
    \E p \in 1..k : s[p] = "<" /\ FirstGt(s, p) >= p + 2 /\ k <= FirstGt(s, p)

StripTags(s) == Kept([k \in DOMAIN s |-> [keep |-> ~InTag(s, k), c |-> s[k]]])

\* Lines 40-41 as they stand in the file: line 40 replaces the ASCII double
\* quote by itself; on line 41 the three apostrophes open a triple-quoted
\* literal, so the line replaces the text  , "'").replace(  by an apostrophe.
Line41Old ==
    <<",", " ", "\"", "'", "\"", ")", ".", "r", "e", "p", "l", "a", "c", "e", "(">>

NormalizeQuotes(s) ==
    LET s1 == ReplaceAll(ReplaceAll(s, <<"\"">>, <<"\"">>), <<"\"">>, <<"\"">>)
    IN ReplaceAll(s1, Line41Old, <<"'">>)

\* str.strip(), line 44.
RECURSIVE DropTrailingWhitespace(_)
DropTrailingWhitespace(s) ==
    IF s # <<>> /\ s[Len(s)] \in Whitespace
    THEN DropTrailingWhitespace(SubSeq(s, 1, Len(s) - 1))
    ELSE s

Strip(s) == DropTrailingWhitespace(DropWhitespace(s))

clean_text(text) ==
    IF text = <<>> THEN <<>>
    ELSE Strip(NormalizeQuotes(StripTags(DecodeEntities(CollapseWhitespace(text)))))

(***************************************************************************)
(* Inputs of clean_text: up to MaxTokens tokens, each a character of the   *)
(* alphabet, one of the five entities, or the tail of an entity.           *)
(***************************************************************************)
Tokens ==
    { <<" ">>, <<"\n">>, <<"<">>, <<">">>, <<"&">>, <<"\"">>, <<"'">>, <<"a">>,
      <<"&", "n", "b", "s", "p", ";">>,
      <<"&", "q", "u", "o", "t", ";">>,
      <<"&", "a", "m", "p", ";">>,
      <<"&", "l", "t", ";">>,
      <<"&", "g", "t", ";">>,
      <<"a", "m", "p", ";">> }

Inputs == {Flatten(ts) : ts \in UNION {[1..n -> Tokens] : n \in 0..MaxTokens}}

InitClean ==
    /\ corpus = <<>>
    /\ IndexerIdle
    /\ cstage = "input"
    /\ text0 \in Inputs
    /\ text1 = <<>>
    /\ text2 = <<>>
    /\ FnOff
    /\ AggOff

CleanOnce ==
    /\ cstage = "input"
    /\ text1' = clean_text(text0)
    /\ cstage' = "once"
    /\ UNCHANGED <<text0, text2>>
    /\ UNCHANGED <<ivars, fvars, avars>>

CleanTwice ==
    /\ cstage = "once"
    /\ text2' = clean_text(text1)
    /\ cstage' = "twice"
    /\ UNCHANGED <<text0, text1>>
    /\ UNCHANGED <<ivars, fvars, avars>>

NextClean ==
    \/ CleanOnce
    \/ CleanTwice

SpecClean == InitClean /\ [][NextClean]_vars

(***************************************************************************)
(* Claims about clean_text                                                 *)
(***************************************************************************)
\* C10 (as stated): clean_text(clean_text(x)) = clean_text(x) for every
\* input string x.
C10_Idempotent == cstage = "twice" => text2 = text1

(***************************************************************************)
(* Strings of the text-processing scripts.  A string is a sequence of      *)
(* one-character strings; a character outside ASCII is written by its      *)
(* code point ("U+0635").  Positions are 1-based; a matcher returns the    *)
(* position after the match, or 0 when there is no match.                  *)
(***************************************************************************)
UpperCase == <<"A", "B", "C", "D", "E", "F", "G", "H", "I", "J", "K", "L", "M", "N", "O", "P", "Q", "R", "S", "T", "U", "V", "W", "X", "Y", "Z">>

LowerCase == <<"a", "b", "c", "d", "e", "f", "g", "h", "i", "j", "k", "l", "m", "n", "o", "p", "q", "r", "s", "t", "u", "v", "w", "x", "y", "z">>

Digits == Range(<<"0", "1", "2", "3", "4", "5", "6", "7", "8", "9">>)

\* Arabic letters (and marks) occurring in the keyword tables.
ArabicLetters == Range(<<"U+0621", "U+0622", "U+0623", "U+0625", "U+0626", "U+0627", "U+0628", "U+0629", "U+062A", "U+062B", "U+062C", "U+062D", "U+062E", "U+062F", "U+0630", "U+0631", "U+0632", "U+0633", "U+0634", "U+0635", "U+0636", "U+0637", "U+0638", "U+0639", "U+063A", "U+0641", "U+0642", "U+0643", "U+0644", "U+0645", "U+0646", "U+0647", "U+0648", "U+0649", "U+064A">>)

\* \w of Python's re on str: letters, digits and the underscore.
WordChars == Range(UpperCase) \cup Range(LowerCase) \cup Digits \cup ArabicLetters \cup {"_"}

\* str.lower() on one character.
LowerOf == [c \in Range(UpperCase) |->
              LowerCase[CHOOSE k \in DOMAIN UpperCase : UpperCase[k] = c]]

LowerChar(c) == IF c \in DOMAIN LowerOf THEN LowerOf[c] ELSE c

\* str.lower()
str_lower(s) == SubSeq([k \in DOMAIN s |-> LowerChar(s[k])], 1, Len(s))

\* sub in s
Contains(s, sub) == \E pos \in 1..(Len(s) + 1) : StartsAt(s, pos, sub)

\* sep.join(parts)
RECURSIVE Join(_, _)
Join(sep, parts) ==
    IF parts = <<>> THEN <<>>
    ELSE IF Len(parts) = 1 THEN parts[1]
    ELSE parts[1] \o sep \o Join(sep, Tail(parts))

(***************************************************************************)
(* The regular expressions of extract_evidence_from_text, matched as       *)
(* re.finditer(pattern, text, re.IGNORECASE) matches them.  In each        *)
(* pattern adjacent repetitions range over disjoint character classes and  *)
(* the alternatives of a group start differently, so the greedy match is   *)
(* the only candidate at a position.                                       *)
(***************************************************************************)
\* The first position at or after pos whose character is outside class.
RECURSIVE SkipClass(_, _, _)
SkipClass(s, pos, class) ==
    IF pos <= Len(s) /\ s[pos] \in class THEN SkipClass(s, pos + 1, class)
    ELSE pos

\* class+
Plus(s, pos, class) ==
    IF pos = 0 THEN 0
    ELSE LET e == SkipClass(s, pos, class) IN IF e > pos THEN e ELSE 0

\* class*
Star(s, pos, class) == IF pos = 0 THEN 0 ELSE SkipClass(s, pos, class)

\* One character of class.
One(s, pos, class) ==
    IF pos # 0 /\ pos <= Len(s) /\ s[pos] \in class THEN pos + 1 ELSE 0

\* A literal, ignoring case.
Lit(s, pos, lit) ==
    IF /\ pos # 0
       /\ pos + Len(lit) - 1 <= Len(s)
       /\ \A k \in DOMAIN lit : LowerChar(s[pos + k - 1]) = LowerChar(lit[k])
    THEN pos + Len(lit)
    ELSE 0

\* (?:a|b|...): the first alternative that matches.
RECURSIVE Alt(_, _, _)
Alt(s, pos, lits) ==
    IF lits = <<>> THEN 0
    ELSE IF Lit(s, pos, Head(lits)) # 0 THEN Lit(s, pos, Head(lits))
    ELSE Alt(s, pos, Tail(lits))

\* process_texts.py:54-56 (patterns 1..3) and 59-62 (patterns 4..5).
quran_patterns == <<1, 2, 3>>

hadith_patterns == <<4, 5>>

MatchAt(p, s, pos) ==
    CASE p = 1 ->
            \* (?:Surah|Chapter)\s+[\w-]+\s*[:,]\s*(?:Ayah|Verse)\s+\d+
            LET a == Plus(s, Alt(s, pos, <<<<"S", "u", "r", "a", "h">>, <<"C", "h", "a", "p", "t", "e", "r">>>>), Whitespace)
                b == Star(s, Plus(s, a, WordChars \cup {"-"}), Whitespace)
                c == Star(s, One(s, b, {":", ","}), Whitespace)
                d == Plus(s, Alt(s, c, <<<<"A", "y", "a", "h">>, <<"V", "e", "r", "s", "e">>>>), Whitespace)
            IN  Plus(s, d, Digits)
      [] p = 2 ->
            \* (?:Quran|Al-Quran)\s+\d+:\d+
            LET a == Plus(s, Alt(s, pos, <<<<"Q", "u", "r", "a", "n">>, <<"A", "l", "-", "Q", "u", "r", "a", "n">>>>), Whitespace)
            IN  Plus(s, One(s, Plus(s, a, Digits), {":"}), Digits)
      [] p = 3 ->
            \* \[\d+:\d+\]
            LET a == Plus(s, One(s, pos, {"["}), Digits)
            IN  One(s, Plus(s, One(s, a, {":"}), Digits), {"]"})
      [] p = 4 ->
            \* (?:Bukhari|Muslim|Tirmidhi|Abu Dawud|Ibn Majah|Nasai)\s+\d+
            LET a == Alt(s, pos, <<<<"B", "u", "k", "h", "a", "r", "i">>, <<"M", "u", "s", "l", "i", "m">>, <<"T", "i", "r", "m", "i", "d", "h", "i">>,
                                   <<"A", "b", "u", " ", "D", "a", "w", "u", "d">>, <<"I", "b", "n", " ", "M", "a", "j", "a", "h">>, <<"N", "a", "s", "a", "i">>>>)
            IN  Plus(s, Plus(s, a, Whitespace), Digits)
      [] p = 5 ->
            \* Sahih\s+(?:Bukhari|Muslim)
            Alt(s, Plus(s, Lit(s, pos, <<"S", "a", "h", "i", "h">>), Whitespace), <<<<"B", "u", "k", "h", "a", "r", "i">>, <<"M", "u", "s", "l", "i", "m">>>>)

\* [m.group() for m in re.finditer(pattern, text, re.IGNORECASE)], from pos on.
RECURSIVE FindIter(_, _, _)
FindIter(p, s, pos) ==
    IF pos > Len(s) THEN <<>>
    ELSE LET e == MatchAt(p, s, pos)
         IN  IF e # 0 THEN <<SubSeq(s, pos, e - 1)>> \o FindIter(p, s, e)
             ELSE FindIter(p, s, pos + 1)

(***************************************************************************)
(* scripts/process_texts.py: extract_evidence_from_text                    *)
(***************************************************************************)
\* The elements of list, each once, in order of first occurrence.
RECURSIVE Distinct(_)
Distinct(list) ==
    IF list = <<>> THEN <<>>
    ELSE LET init == Distinct(SubSeq(list, 1, Len(list) - 1))
             last == list[Len(list)]
         IN  IF last \in Range(init) THEN init ELSE Append(init, last)

Reverse(list) == [k \in DOMAIN list |-> list[Len(list) + 1 - k]]

\* The iteration order of a Python set of strings follows the strings'
\* hashes, which are salted per process: hashSeed stands for the salt.
HashSeeds == {0, 1}

\* list(set(list))
ListOfSet(list, hashSeed) ==
    IF hashSeed = 0 THEN Distinct(list) ELSE Reverse(Distinct(list))

\* [clean_text(m.group()) for each pattern of patterns, for each match]
RECURSIVE MatchesOf(_, _)
MatchesOf(patterns, text) ==
    IF patterns = <<>> THEN <<>>
    ELSE LET found == FindIter(Head(patterns), text, 1)
         IN  [k \in DOMAIN found |-> clean_text(found[k])]
             \o MatchesOf(Tail(patterns), text)

\* evidence, as appended by the two loops (lines 64-74), before line 76.
EvidenceMatches(text) == MatchesOf(quran_patterns \o hadith_patterns, text)

extract_evidence_from_text_NoSet(text, hashSeed) == EvidenceMatches(text)

extract_evidence_from_text(text, hashSeed) ==
    ListOfSet(EvidenceMatches(text), hashSeed)

\* Ruling texts: up to MaxWords of these words, joined by one blank.
MaxWords == 3

EvidenceWords ==
    { <<"B", "u", "k", "h", "a", "r", "i", " ", "1", "2">>,
      <<"b", "u", "k", "h", "a", "r", "i", " ", "1", "2">>,
      <<"B", "u", "k", "h", "a", "r", "i", " ", " ", "1", "2">>,
      <<"[", "2", ":", "2", "5", "5", "]">>,
      <<"A", "l", "-", "Q", "u", "r", "a", "n", " ", "2", ":", "2", "5", "5">>,
      <<"S", "a", "h", "i", "h", " ", "M", "u", "s", "l", "i", "m">>,
      <<"S", "u", "r", "a", "h", " ", "A", "l", "-", "B", "a", "q", "a", "r", "a", "h", ":", " ", "A", "y", "a", "h", " ", "2", "5", "5">>,
      <<"n", "a", "r", "r", "a", "t", "e", "d">> }

EvidenceTexts ==
    UNION { {Join(<<" ">>, ws) : ws \in [1..n -> EvidenceWords]} : n \in 0..MaxWords }

(***************************************************************************)
(* FnSpec: one application of one pure function to one bounded input.      *)
(***************************************************************************)
InitExtractEvidence ==
    fin \in [f : {"extract_evidence_from_text"}, text : EvidenceTexts,
             hashSeed : HashSeeds]

CallExtractEvidence ==
    /\ fn = "none"
    /\ fin.f = "extract_evidence_from_text"
    /\ fn' = fin.f
    /\ fout' = extract_evidence_from_text(fin.text, fin.hashSeed)
    /\ UNCHANGED <<fin, ivars, cvars, avars>>

\* Some pattern of extract_evidence_from_text matches somewhere in text.
SomePatternMatches(text) ==
    \E p \in Range(quran_patterns \o hadith_patterns) :
        \E pos \in DOMAIN text : MatchAt(p, text, pos) # 0

\* C17: the list returned by extract_evidence_from_text holds no string twice,
\* holds exactly the (cleaned) citations matched, and is empty when no pattern
\* matches anywhere in the text.
C17_EvidenceDedup ==
    fn = "extract_evidence_from_text" =>
        /\ ~HasDuplicates(fout)
        /\ Range(fout) = Range(EvidenceMatches(fin.text))
        /\ ~SomePatternMatches(fin.text) => fout = <<>>

\* C17 witness: a text in which the same citation is matched more than once
\* (at two positions, or differing only in the whitespace clean_text removes).
C17_Witness ==
    /\ fn = "extract_evidence_from_text"
    /\ HasDuplicates(EvidenceMatches(fin.text))
    /\ Len(fout) >= 2

(***************************************************************************)
(* scripts/process_texts.py: normalize_topic, process_hadith_file and      *)
(* process_fatwa_file.                                                     *)
(*                                                                         *)
(* A raw file is [name, readable, records]: name is <<directory, number>>,  *)
(* readable is FALSE when open()                                           *)
(* or json.load() raises.  A raw record is                                 *)
(*   isMap     the record is a JSON object (has .get)                      *)
(*   id        its 'id' (a number standing for the string), 0 when absent  *)
(*   rulingT   "str", "absent", "none" (null) or "int" (a non-zero number) *)
(*   ruling    the text when rulingT = "str"                               *)
(*   question  its 'question' text (fatwas)                                *)
(*   topicsT   "list", "absent" or "none" (null)                           *)
(*   topics    the items, each [isStr, s]                                  *)
(*   evidence  its 'evidence' list (empty also when absent)                *)
(* The fields an entry copies unchanged (source, authenticity, date,       *)
(* madhab, arabicText) are left out.                                       *)
(***************************************************************************)
\* process_texts.py:84-99
normalizations ==
    << <<<<"s", "a", "l", "a", "h">>, <<"p", "r", "a", "y", "e", "r">>>>, <<<<"s", "a", "l", "a", "t">>, <<"p", "r", "a", "y", "e", "r">>>>, <<<<"n", "a", "m", "a", "z">>, <<"p", "r", "a", "y", "e", "r">>>>,
       <<<<"s", "a", "l", "a", "a", "h">>, <<"p", "r", "a", "y", "e", "r">>>>, <<<<"w", "u", "d", "h", "u">>, <<"w", "u", "d", "u">>>>, <<<<"w", "u", "d", "o", "o">>, <<"w", "u", "d", "u">>>>,
       <<<<"z", "a", "k", "a", "h">>, <<"z", "a", "k", "a", "t">>>>, <<<<"z", "a", "k", "a", "a", "h">>, <<"z", "a", "k", "a", "t">>>>, <<<<"s", "a", "w", "m">>, <<"f", "a", "s", "t", "i", "n", "g">>>>,
       <<<<"s", "i", "y", "a", "m">>, <<"f", "a", "s", "t", "i", "n", "g">>>>, <<<<"h", "a", "j", "j">>, <<"p", "i", "l", "g", "r", "i", "m", "a", "g", "e">>>>, <<<<"n", "i", "k", "a", "h">>, <<"m", "a", "r", "r", "i", "a", "g", "e">>>>,
       <<<<"t", "a", "l", "a", "a", "q">>, <<"d", "i", "v", "o", "r", "c", "e">>>>, <<<<"t", "a", "l", "a", "q">>, <<"d", "i", "v", "o", "r", "c", "e">>>> >>

normalize_topic(topic) ==
    LET t == Strip(str_lower(topic))
    IN  IF \E k \in DOMAIN normalizations : normalizations[k][1] = t
        THEN normalizations[CHOOSE k \in DOMAIN normalizations : normalizations[k][1] = t][2]
        ELSE t

General == <<"g", "e", "n", "e", "r", "a", "l">>

\* process_texts.py:114 and 160
MinRuling(kind) == IF kind = "hadith" THEN 20 ELSE 50

\* clean_text(record.get('ruling', '')): raises on a non-text value that is
\* not falsy; clean_text returns "" for every falsy value (line 23).
RulingRaises(rec) == ~rec.isMap \/ rec.rulingT = "int"

CleanRuling(rec) == IF rec.rulingT = "str" THEN clean_text(rec.ruling) ELSE <<>>

\* if not ruling or len(ruling) < N: continue
Skipped(kind, rec) ==
    LET ruling == CleanRuling(rec)
    IN  ruling = <<>> \/ Len(ruling) < MinRuling(kind)

\* [normalize_topic(t) for t in record.get('topics', [])]: raises on null and
\* on an item without .lower().
TopicsRaise(rec) ==
    rec.topicsT = "none" \/ \E k \in DOMAIN rec.topics : ~rec.topics[k].isStr

NormalizedTopics_NoFallback(rec) ==
    [k \in DOMAIN rec.topics |-> normalize_topic(rec.topics[k].s)]

NormalizedTopics(rec) ==
    LET ts == [k \in DOMAIN rec.topics |-> normalize_topic(rec.topics[k].s)]
    IN  IF ts = <<>> THEN <<General>> ELSE ts

\* record.get('id', str(uuid.uuid4())): a fresh id for a record without one.
EntryId(rec, name, pos) ==
    IF rec.id # 0 THEN [given |-> TRUE, file |-> <<>>, n |-> rec.id]
    ELSE [given |-> FALSE, file |-> name, n |-> pos]

\* The entry built from one record (lines 127-137, 173-183).
MakeEntry_AlwaysExtract(kind, rec, name, pos, hashSeed) ==
    LET ruling == CleanRuling(rec) IN
    [id |-> EntryId(rec, name, pos),
     type |-> kind,
     question |-> IF kind = "fatwa" THEN clean_text(rec.question) ELSE <<>>,
     ruling |-> ruling,
     evidence |-> extract_evidence_from_text(ruling, hashSeed),
     topics |-> NormalizedTopics(rec)]

MakeEntry(kind, rec, name, pos, hashSeed) ==
    LET ruling == CleanRuling(rec) IN
    [id |-> EntryId(rec, name, pos),
     type |-> kind,
     question |-> IF kind = "fatwa" THEN clean_text(rec.question) ELSE <<>>,
     ruling |-> ruling,
     evidence |-> IF rec.evidence # <<>> THEN rec.evidence
                  ELSE extract_evidence_from_text(ruling, hashSeed),
     topics |-> NormalizedTopics(rec)]

\* The for loop from record pos on: the entries it appends, and whether an
\* exception left the loop.
RECURSIVE ProcessRecords(_, _, _, _)
ProcessRecords(kind, file, pos, hashSeed) ==
    IF pos > Len(file.records) THEN [raised |-> FALSE, processed |-> <<>>]
    ELSE IF RulingRaises(file.records[pos]) THEN [raised |-> TRUE, processed |-> <<>>]
    ELSE IF Skipped(kind, file.records[pos])
         THEN ProcessRecords(kind, file, pos + 1, hashSeed)
    ELSE IF TopicsRaise(file.records[pos]) THEN [raised |-> TRUE, processed |-> <<>>]
    ELSE LET entry == MakeEntry(kind, file.records[pos], file.name, pos, hashSeed)
             rest == ProcessRecords(kind, file, pos + 1, hashSeed)
         IN  [raised |-> rest.raised, processed |-> <<entry>> \o rest.processed]

\* process_hadith_file / process_fatwa_file: one try around open, json.load
\* and the whole loop; except Exception: return [].
process_file(kind, file, hashSeed) ==
    IF ~file.readable THEN <<>>
    ELSE LET r == ProcessRecords(kind, file, 1, hashSeed)
         IN  IF r.raised THEN <<>> ELSE r.processed

process_hadith_file(file, hashSeed) == process_file("hadith", file, hashSeed)

process_fatwa_file(file, hashSeed) == process_file("fatwa", file, hashSeed)

(***************************************************************************)
(* Raw records and raw files for the unifier.  The rulings are built       *)
(* around the minimum of the kind, so that both sides of the threshold     *)
(* occur after cleaning.                                                   *)
(***************************************************************************)
Filler(n) == [k \in 1..n |-> "x"]

Topic(s) == [isStr |-> TRUE, s |-> s]

NotAString == [isStr |-> FALSE, s |-> <<>>]

RawRecord(id, rulingT, ruling, topicsT, topics, evidence) ==
    [isMap |-> TRUE, id |-> id, rulingT |-> rulingT, ruling |-> ruling,
     question |-> <<" ", "I", "s", " ", " ", "i", "t", "\n", "a", "l", "l", "o", "w", "e", "d", "?", " ">>, topicsT |-> topicsT, topics |-> topics,
     evidence |-> evidence]

NotAMapping ==
    [isMap |-> FALSE, id |-> 0, rulingT |-> "absent", ruling |-> <<>>,
     question |-> <<>>, topicsT |-> "absent", topics |-> <<>>, evidence |-> <<>>]

\* Well-formed, citations in the ruling (one of them twice), tags to normalize.
RecCited(kind) ==
    RawRecord(1, "str", <<"B", "u", "k", "h", "a", "r", "i", " ", "1", "2", " ", "[", "2", ":", "2", "5", "5", "]", " ", "B", "u", "k", "h", "a", "r", "i", " ", " ", "1", "2", " ">> \o Filler(MinRuling(kind) - 20),
              "list", <<Topic(<<" ", "S", "a", "l", "a", "h">>), Topic(<<"F", "i", "q", "h">>)>>, <<>>)

\* Well-formed, exactly the minimum after cleaning, curated evidence, no id,
\* the tag "general" supplied.
RecCurated(kind) ==
    RawRecord(0, "str", <<"<", "b", ">", "B", "u", "k", "h", "a", "r", "i", " ", "1", "2", "<", "/", "b", ">", " ", " ">> \o Filler(MinRuling(kind) - 11),
              "list", <<Topic(General)>>, <<<<"M", "u", "s", "l", "i", "m", " ", "7">>>>)

\* Well-formed, plain ruling, no topics, no evidence.
RecPlain(kind) ==
    RawRecord(2, "str", Filler(MinRuling(kind) + 1), "absent", <<>>, <<>>)

\* Raw ruling above the minimum, cleaned ruling one below it; topics null.
RecShort(kind) ==
    RawRecord(3, "str", Filler(MinRuling(kind) - 10) \o <<" ", " ", "\n", " ">> \o Filler(8) \o <<" ">>,
              "none", <<>>, <<>>)

\* No ruling at all.
RecNoRuling == RawRecord(4, "absent", <<>>, "list", <<Topic(<<"h", "a", "j", "j">>)>>, <<>>)

\* Malformed: the ruling is a number.
RecRulingNumber == RawRecord(5, "int", <<>>, "absent", <<>>, <<>>)

\* Malformed: a topic that is not text; the id of RecCited.
RecTopicNumber(kind) ==
    RawRecord(1, "str", Filler(MinRuling(kind)), "list", <<Topic(<<"z", "a", "k", "a", "h">>), NotAString>>, <<>>)

RawRecords(kind) ==
    { RecCited(kind), RecCurated(kind), RecPlain(kind), RecShort(kind), RecNoRuling,
      RecRulingNumber, RecTopicNumber(kind), NotAMapping }

\* Records per raw file.
MaxRecords == 3

RawFiles(kind) ==
    UNION { [name : {<<"raw", 1>>}, readable : {TRUE}, records : [1..n -> RawRecords(kind)]]
            : n \in 0..MaxRecords }
    \cup {[name |-> <<"raw", 1>>, readable |-> FALSE, records |-> <<>>]}

\* A record that the loop body handles without raising.
WellFormed(kind, rec) ==
    ~RulingRaises(rec) /\ (Skipped(kind, rec) \/ ~TopicsRaise(rec))

InitProcessFile ==
    \E kind \in {"hadith", "fatwa"} :
        fin \in [f : {"process_file"}, kind : {kind}, file : RawFiles(kind),
                 hashSeed : HashSeeds]

CallProcessFile ==
    /\ fn = "none"
    /\ fin.f = "process_file"
    /\ fn' = fin.f
    /\ fout' = IF fin.kind = "hadith" THEN process_hadith_file(fin.file, fin.hashSeed)
               ELSE process_fatwa_file(fin.file, fin.hashSeed)
    /\ UNCHANGED <<fin, ivars, cvars, avars>>

(***************************************************************************)
(* Observations on one call of process_hadith_file / process_fatwa_file.   *)
(***************************************************************************)
\* The elements of a set of numbers, ascending.
RECURSIVE Ascending(_)
Ascending(S) ==
    IF S = {} THEN <<>>
    ELSE LET m == CHOOSE x \in S : \A y \in S : x <= y
         IN  <<m>> \o Ascending(S \ {m})

\* The records of a file that are well-formed and meet the minimum.
Eligible(kind, file) ==
    {pos \in DOMAIN file.records :
        WellFormed(kind, file.records[pos]) /\ ~Skipped(kind, file.records[pos])}

\* A record of the file that makes the loop body raise.
Malformed(kind, file) ==
    {pos \in DOMAIN file.records : ~WellFormed(kind, file.records[pos])}

UnifierCalled == fn = "process_file"

\* The raw records behind the entries returned, in order.
Sources ==
    LET p == Ascending(Eligible(fin.kind, fin.file))
    IN  SubSeq([k \in DOMAIN p |-> fin.file.records[p[k]]], 1, Len(p))

\* C11: no entry returned has an empty cleaned ruling or one below the minimum
\* of its kind, and every well-formed record of a readable file whose cleaned
\* ruling meets the minimum is returned as an entry.
C11_ExclusionAndCompleteness ==
    UnifierCalled =>
        /\ \A k \in DOMAIN fout :
              /\ fout[k].ruling # <<>>
              /\ Len(fout[k].ruling) >= MinRuling(fin.kind)
        /\ fin.file.readable =>
              \A pos \in Eligible(fin.kind, fin.file) :
                  \E k \in DOMAIN fout :
                      /\ fout[k].ruling = CleanRuling(fin.file.records[pos])
                      /\ fout[k].id = EntryId(fin.file.records[pos], fin.file.name, pos)

\* C12: when some record of a readable file is malformed, the entries returned
\* are still those of all its well-formed records that meet the minimum, in
\* file order: only the malformed record is missing.
C12_RecordDefectIsolated ==
    (UnifierCalled /\ fin.file.readable /\ Malformed(fin.kind, fin.file) # {}) =>
        LET p == Ascending(Eligible(fin.kind, fin.file))
        IN  /\ Len(fout) = Len(p)
            /\ \A k \in DOMAIN p :
                  fout[k].id = EntryId(fin.file.records[p[k]], fin.file.name, p[k])

\* C16: an entry whose raw record supplies evidence carries exactly that
\* evidence, whatever citations its ruling holds; otherwise its evidence is
\* the citations matched in its cleaned ruling, each once.
C16_CuratedEvidenceKept ==
    LET src == Sources IN
    UnifierCalled =>
        \A k \in DOMAIN fout :
            IF src[k].evidence # <<>>
            THEN fout[k].evidence = src[k].evidence
            ELSE /\ Range(fout[k].evidence) = Range(EvidenceMatches(fout[k].ruling))
                 /\ ~HasDuplicates(fout[k].evidence)

\* C16 witness: one call returns an entry with curated evidence whose ruling
\* holds another citation, and an entry whose evidence was extracted.
C16_Witness ==
    LET src == Sources IN
    /\ UnifierCalled
    /\ \E k \in DOMAIN fout :
          /\ src[k].evidence # <<>>
          /\ EvidenceMatches(fout[k].ruling) # <<>>
          /\ Range(fout[k].evidence) # Range(EvidenceMatches(fout[k].ruling))
    /\ \E k \in DOMAIN fout :
          /\ src[k].evidence = <<>>
          /\ Len(fout[k].evidence) = 2

(***************************************************************************)
(* The topic classifiers: convert_hadith.py extract_topics_from_chapter    *)
(* and convert_islamqa.py extract_topics_from_title.  A keyword table is   *)
(* a sequence of <<topic, keywords>> in the order of the dict.             *)
(***************************************************************************)
\* convert_hadith.py:102-117
chapter_topic_keywords ==
    <<
       <<<<"p", "r", "a", "y", "e", "r">>, <<<<"p", "r", "a", "y", "e", "r">>, <<"s", "a", "l", "a", "h">>, <<"s", "a", "l", "a", "t">>, <<"p", "r", "a", "y", "i", "n", "g">>>>>>,
       <<<<"f", "a", "s", "t", "i", "n", "g">>, <<<<"f", "a", "s", "t", "i", "n", "g">>, <<"f", "a", "s", "t">>, <<"s", "a", "w", "m">>, <<"r", "a", "m", "a", "d", "a", "n">>>>>>,
       <<<<"z", "a", "k", "a", "t">>, <<<<"z", "a", "k", "a", "t">>, <<"c", "h", "a", "r", "i", "t", "y">>, <<"a", "l", "m", "s">>>>>>,
       <<<<"h", "a", "j", "j">>, <<<<"h", "a", "j", "j">>, <<"p", "i", "l", "g", "r", "i", "m", "a", "g", "e">>, <<"u", "m", "r", "a", "h">>>>>>,
       <<<<"p", "u", "r", "i", "f", "i", "c", "a", "t", "i", "o", "n">>, <<<<"p", "u", "r", "i", "f", "i", "c", "a", "t", "i", "o", "n">>, <<"w", "u", "d", "u">>, <<"a", "b", "l", "u", "t", "i", "o", "n">>, <<"g", "h", "u", "s", "l">>, <<"t", "a", "y", "a", "m", "m", "u", "m">>>>>>,
       <<<<"f", "a", "i", "t", "h">>, <<<<"f", "a", "i", "t", "h">>, <<"b", "e", "l", "i", "e", "f">>, <<"i", "m", "a", "n">>, <<"c", "r", "e", "e", "d">>>>>>,
       <<<<"m", "a", "r", "r", "i", "a", "g", "e">>, <<<<"m", "a", "r", "r", "i", "a", "g", "e">>, <<"n", "i", "k", "a", "h">>, <<"d", "i", "v", "o", "r", "c", "e">>, <<"t", "a", "l", "a", "q">>>>>>,
       <<<<"t", "r", "a", "d", "e">>, <<<<"t", "r", "a", "d", "e">>, <<"b", "u", "s", "i", "n", "e", "s", "s">>, <<"t", "r", "a", "n", "s", "a", "c", "t", "i", "o", "n", "s">>, <<"b", "u", "y", "i", "n", "g">>, <<"s", "e", "l", "l", "i", "n", "g">>>>>>,
       <<<<"f", "o", "o", "d">>, <<<<"f", "o", "o", "d">>, <<"d", "r", "i", "n", "k">>, <<"e", "a", "t", "i", "n", "g">>, <<"s", "l", "a", "u", "g", "h", "t", "e", "r", "i", "n", "g">>>>>>,
       <<<<"c", "l", "o", "t", "h", "i", "n", "g">>, <<<<"c", "l", "o", "t", "h", "i", "n", "g">>, <<"d", "r", "e", "s", "s">>, <<"g", "a", "r", "m", "e", "n", "t">>>>>>,
       <<<<"f", "u", "n", "e", "r", "a", "l">>, <<<<"f", "u", "n", "e", "r", "a", "l">>, <<"b", "u", "r", "i", "a", "l">>, <<"d", "e", "a", "t", "h">>, <<"j", "a", "n", "a", "z", "a", "h">>>>>>,
       <<<<"j", "i", "h", "a", "d">>, <<<<"j", "i", "h", "a", "d">>, <<"f", "i", "g", "h", "t", "i", "n", "g">>, <<"w", "a", "r", "f", "a", "r", "e">>>>>>,
       <<<<"k", "n", "o", "w", "l", "e", "d", "g", "e">>, <<<<"k", "n", "o", "w", "l", "e", "d", "g", "e">>, <<"l", "e", "a", "r", "n", "i", "n", "g">>, <<"t", "e", "a", "c", "h", "i", "n", "g">>>>>>,
       <<<<"m", "a", "n", "n", "e", "r", "s">>, <<<<"m", "a", "n", "n", "e", "r", "s">>, <<"a", "d", "a", "b">>, <<"e", "t", "i", "q", "u", "e", "t", "t", "e">>, <<"b", "e", "h", "a", "v", "i", "o", "r">>>>>>
    >>

\* convert_islamqa.py:39-55
title_topic_keywords ==
    <<
       <<<<"p", "r", "a", "y", "e", "r">>, <<<<"U+0635", "U+0644", "U+0627", "U+0629">>, <<"U+0635", "U+0644", "U+0648", "U+0627", "U+062A">>, <<"p", "r", "a", "y", "e", "r">>, <<"s", "a", "l", "a", "h">>, <<"U+0635", "U+0644", "U+0649">>>>>>,
       <<<<"f", "a", "s", "t", "i", "n", "g">>, <<<<"U+0635", "U+064A", "U+0627", "U+0645">>, <<"U+0635", "U+0648", "U+0645">>, <<"f", "a", "s", "t", "i", "n", "g">>, <<"U+0631", "U+0645", "U+0636", "U+0627", "U+0646">>, <<"r", "a", "m", "a", "d", "a", "n">>>>>>,
       <<<<"z", "a", "k", "a", "t">>, <<<<"U+0632", "U+0643", "U+0627", "U+0629">>, <<"z", "a", "k", "a", "t">>, <<"c", "h", "a", "r", "i", "t", "y">>>>>>,
       <<<<"h", "a", "j", "j">>, <<<<"U+062D", "U+062C">>, <<"U+0639", "U+0645", "U+0631", "U+0629">>, <<"h", "a", "j", "j">>, <<"u", "m", "r", "a", "h">>>>>>,
       <<<<"p", "u", "r", "i", "f", "i", "c", "a", "t", "i", "o", "n">>, <<<<"U+0637", "U+0647", "U+0627", "U+0631", "U+0629">>, <<"U+0648", "U+0636", "U+0648", "U+0621">>, <<"U+063A", "U+0633", "U+0644">>, <<"p", "u", "r", "i", "f", "i", "c", "a", "t", "i", "o", "n">>, <<"w", "u", "d", "u">>>>>>,
       <<<<"m", "a", "r", "r", "i", "a", "g", "e">>, <<<<"U+0632", "U+0648", "U+0627", "U+062C">>, <<"U+0646", "U+0643", "U+0627", "U+062D">>, <<"U+0637", "U+0644", "U+0627", "U+0642">>, <<"m", "a", "r", "r", "i", "a", "g", "e">>, <<"d", "i", "v", "o", "r", "c", "e">>>>>>,
       <<<<"f", "a", "i", "t", "h">>, <<<<"U+0625", "U+064A", "U+0645", "U+0627", "U+0646">>, <<"U+0639", "U+0642", "U+064A", "U+062F", "U+0629">>, <<"f", "a", "i", "t", "h">>, <<"b", "e", "l", "i", "e", "f">>>>>>,
       <<<<"q", "u", "r", "a", "n">>, <<<<"U+0642", "U+0631", "U+0622", "U+0646">>, <<"q", "u", "r", "a", "n">>, <<"r", "e", "c", "i", "t", "a", "t", "i", "o", "n">>, <<"U+062A", "U+0644", "U+0627", "U+0648", "U+0629">>>>>>,
       <<<<"h", "a", "d", "i", "t", "h">>, <<<<"U+062D", "U+062F", "U+064A", "U+062B">>, <<"h", "a", "d", "i", "t", "h">>, <<"U+0633", "U+0646", "U+0629">>>>>>,
       <<<<"f", "a", "m", "i", "l", "y">>, <<<<"U+0623", "U+0633", "U+0631", "U+0629">>, <<"U+0623", "U+0647", "U+0644">>, <<"f", "a", "m", "i", "l", "y">>, <<"U+0648", "U+0627", "U+0644", "U+062F", "U+064A", "U+0646">>, <<"p", "a", "r", "e", "n", "t", "s">>>>>>,
       <<<<"b", "u", "s", "i", "n", "e", "s", "s">>, <<<<"U+0645", "U+0639", "U+0627", "U+0645", "U+0644", "U+0627", "U+062A">>, <<"U+0628", "U+064A", "U+0639">>, <<"U+0634", "U+0631", "U+0627", "U+0621">>, <<"U+062A", "U+062C", "U+0627", "U+0631", "U+0629">>, <<"b", "u", "s", "i", "n", "e", "s", "s">>, <<"t", "r", "a", "d", "e">>>>>>,
       <<<<"i", "n", "h", "e", "r", "i", "t", "a", "n", "c", "e">>, <<<<"U+0645", "U+064A", "U+0631", "U+0627", "U+062B">>, <<"i", "n", "h", "e", "r", "i", "t", "a", "n", "c", "e">>, <<"U+0648", "U+0631", "U+0627", "U+062B", "U+0629">>>>>>,
       <<<<"f", "o", "o", "d">>, <<<<"U+0637", "U+0639", "U+0627", "U+0645">>, <<"U+0623", "U+0643", "U+0644">>, <<"f", "o", "o", "d">>, <<"e", "a", "t", "i", "n", "g">>>>>>,
       <<<<"m", "a", "n", "n", "e", "r", "s">>, <<<<"U+0623", "U+062E", "U+0644", "U+0627", "U+0642">>, <<"U+0622", "U+062F", "U+0627", "U+0628">>, <<"m", "a", "n", "n", "e", "r", "s">>, <<"b", "e", "h", "a", "v", "i", "o", "r">>>>>>,
       <<<<"w", "o", "r", "s", "h", "i", "p">>, <<<<"U+0639", "U+0628", "U+0627", "U+062F", "U+0629">>, <<"U+0639", "U+0628", "U+0627", "U+062F", "U+0627", "U+062A">>, <<"w", "o", "r", "s", "h", "i", "p">>>>>>
    >>

\* any(keyword in text_lower for keyword in keywords)
AnyKeywordIn(keywords, text_lower) ==
    \E k \in DOMAIN keywords : Contains(text_lower, keywords[k])

\* The shared body of the two classifiers: the topics one of whose keywords
\* occurs in the lower-cased text, in table order; ['general'] for an empty
\* (or missing) text and when no topic was found.
ClassifyTopics(topic_keywords, text) ==
    IF text = <<>> THEN <<General>>
    ELSE LET text_lower == str_lower(text)
             hits == SelectSeq(topic_keywords,
                               LAMBDA e : AnyKeywordIn(e[2], text_lower))
             topics == [k \in DOMAIN hits |-> hits[k][1]]
         IN  IF topics # <<>> THEN topics ELSE <<General>>

extract_topics_from_chapter(chapter_name) ==
    ClassifyTopics(chapter_topic_keywords, chapter_name)

extract_topics_from_title(title) == ClassifyTopics(title_topic_keywords, title)

\* Chapter names and fatwa titles: up to MaxTitleWords of these, joined by a blank.
MaxTitleWords == 3

ChapterWords ==
    { <<"T", "h", "e", " ", "B", "o", "o", "k", " ", "o", "f">>, <<"P", "r", "a", "y", "e", "r">>, <<"S", "A", "L", "A", "H">>, <<"B", "r", "e", "a", "k", "f", "a", "s", "t">>, <<"W", "i", "l", "l", "s">>, <<"N", "i", "k", "a", "h">>,
      <<"G", "o", "o", "d", " ", "M", "a", "n", "n", "e", "r", "s">> }

TitleWords ==
    { <<"R", "u", "l", "i", "n", "g", " ", "o", "n">>, <<"U+062D", "U+0643", "U+0645">>, <<"U+0627", "U+0644", "U+0635", "U+0644", "U+0627", "U+0629">>, <<"Z", "a", "k", "a", "t">>, <<"U+0635", "U+0648", "U+0645">>, <<"I", "n", "h", "e", "r", "i", "t", "a", "n", "c", "e">>, <<"t", "r", "a", "v", "e", "l">> }

TextsOver(words) ==
    UNION { {Join(<<" ">>, ws) : ws \in [1..n -> words]} : n \in 0..MaxTitleWords }

InitClassify ==
    \/ fin \in [f : {"extract_topics_from_chapter"}, text : TextsOver(ChapterWords)]
    \/ fin \in [f : {"extract_topics_from_title"}, text : TextsOver(TitleWords)]

CallTopicsFromChapter ==
    /\ fn = "none"
    /\ fin.f = "extract_topics_from_chapter"
    /\ fn' = fin.f
    /\ fout' = extract_topics_from_chapter(fin.text)
    /\ UNCHANGED <<fin, ivars, cvars, avars>>

CallTopicsFromTitle ==
    /\ fn = "none"
    /\ fin.f = "extract_topics_from_title"
    /\ fn' = fin.f
    /\ fout' = extract_topics_from_title(fin.text)
    /\ UNCHANGED <<fin, ivars, cvars, avars>>

\* The keywords registered in a table.
KeywordsOf(topic_keywords) ==
    UNION {Range(topic_keywords[k][2]) : k \in DOMAIN topic_keywords}

NoKeywordIn(topic_keywords, text) ==
    \A kw \in KeywordsOf(topic_keywords) : ~Contains(str_lower(text), kw)

\* The classifier half of C15: never empty, ['general'] exactly when no
\* registered keyword is a substring of the lower-cased input.
ClassifierFallback ==
    /\ fn = "extract_topics_from_chapter" =>
          /\ fout # <<>>
          /\ fout = <<General>> <=> NoKeywordIn(chapter_topic_keywords, fin.text)
    /\ fn = "extract_topics_from_title" =>
          /\ fout # <<>>
          /\ fout = <<General>> <=> NoKeywordIn(title_topic_keywords, fin.text)

\* C15 as stated: every entry of the unifier has a non-empty topics list that
\* is ['general'] exactly when its raw record supplies no topic tags, and the
\* classifiers never return an empty list and return ['general'] exactly when
\* no keyword occurs in the input.
C15_GeneralIffNoTags ==
    LET src == Sources IN
    /\ UnifierCalled =>
          \A k \in DOMAIN fout :
              /\ fout[k].topics # <<>>
              /\ fout[k].topics = <<General>> <=> src[k].topics = <<>>
    /\ ClassifierFallback

\* C15 amended: every entry of the unifier has a non-empty topics list, which
\* is ['general'] whenever its raw record supplies no topic tags and is
\* otherwise the supplied tags, each normalized (so also ['general'] for a
\* record that supplies that tag); the classifier half as stated.
C15_TopicsNeverEmpty ==
    LET src == Sources IN
    /\ UnifierCalled =>
          \A k \in DOMAIN fout :
              /\ fout[k].topics # <<>>
              /\ src[k].topics = <<>> => fout[k].topics = <<General>>
              /\ src[k].topics # <<>> =>
                    /\ Len(fout[k].topics) = Len(src[k].topics)
                    /\ \A j \in DOMAIN fout[k].topics :
                          fout[k].topics[j] = normalize_topic(src[k].topics[j].s)
    /\ ClassifierFallback

\* C15 witness: one call returns an entry for a record without tags and an
\* entry for a record that supplies the tag "general".
C15_Witness ==
    LET src == Sources IN
    /\ UnifierCalled
    /\ \E k \in DOMAIN fout :
          src[k].topics = <<>> /\ fout[k].topics = <<General>>
    /\ \E k \in DOMAIN fout :
          src[k].topics # <<>> /\ fout[k].topics = <<General>>

(***************************************************************************)
(* scripts/process_texts.py: process_all_data.  The raw tree is            *)
(*   hadithDir, fatwaDir   the directories raw/hadith, raw/fatawa exist    *)
(*   hadith                the *.json files of raw/hadith, in glob order   *)
(*   subdirs               the *.json files of its subdirectories, in      *)
(*                         iteration order                                 *)
(*   fatawa                the *.json files of raw/fatawa                  *)
(*   hashSeed              the string-hash salt of the process             *)
(***************************************************************************)
Stages == <<"hadith", "subdirs", "fatawa">>

StageFiles(tree, stage) ==
    CASE stage = "hadith" -> tree.hadith
      [] stage = "subdirs" -> tree.subdirs
      [] stage = "fatawa" -> tree.fatawa

StageKind(stage) == IF stage = "fatawa" THEN "fatwa" ELSE "hadith"

\* The loop position after idx files of stage number s: the next file of the
\* stage, else the first file of a later stage, else the statistics (line 247).
RECURSIVE NextPosition(_, _, _)
NextPosition(tree, s, idx) ==
    IF s > Len(Stages) THEN [apc |-> "save", aidx |-> 0]
    ELSE IF idx < Len(StageFiles(tree, Stages[s])) THEN [apc |-> Stages[s], aidx |-> idx]
    ELSE NextPosition(tree, s + 1, 0)

StageNumber(stage) == CHOOSE s \in DOMAIN Stages : Stages[s] = stage

\* all_entries.extend(entries)
Extend_Replace(all, new) == new

Extend(all, new) == all \o new

\* lines 249-252: type_counts.
CountByType_Presence(all) == [t \in {all[k].type : k \in DOMAIN all} |-> 1]

CountByType(all) ==
    [t \in {all[k].type : k \in DOMAIN all} |->
        Cardinality({k \in DOMAIN all : all[k].type = t})]

EmptySourcesInfo ==
    [hadith_collections |-> <<>>, fatwa_sources |-> <<>>, total_entries |-> 0,
     entries_by_type |-> <<>>]

\* lines 200-206
AggStart ==
    /\ apc = "start"
    /\ all_entries' = <<>>
    /\ sources_info' = EmptySourcesInfo
    /\ apc' = NextPosition(raw, 1, 0).apc
    /\ aidx' = 0
    /\ UNCHANGED <<raw, outDb, outSources, ivars, cvars, fvars>>

\* One iteration of a file loop: lines 214-220, 225-231, 238-244.
ProcessNextFile(stage) ==
    LET file == StageFiles(raw, stage)[aidx + 1]
        new == IF stage = "fatawa" THEN process_fatwa_file(file, raw.hashSeed)
               ELSE process_hadith_file(file, raw.hashSeed)
        stat == [file |-> file.name, count |-> Len(new)]
        next == NextPosition(raw, StageNumber(stage), aidx + 1)
    IN  /\ apc = stage
        /\ all_entries' = Extend(all_entries, new)
        /\ sources_info' =
              IF stage = "fatawa"
              THEN [sources_info EXCEPT !.fatwa_sources = Append(@, stat)]
              ELSE [sources_info EXCEPT !.hadith_collections = Append(@, stat)]
        /\ apc' = next.apc
        /\ aidx' = next.aidx
        /\ UNCHANGED <<raw, outDb, outSources, ivars, cvars, fvars>>

AggHadithFile == ProcessNextFile("hadith")

AggSubdirFile == ProcessNextFile("subdirs")

AggFatwaFile == ProcessNextFile("fatawa")

\* lines 247-266: the statistics, then both output files.
AggSave ==
    /\ apc = "save"
    /\ sources_info' = [sources_info EXCEPT !.total_entries = Len(all_entries),
                                            !.entries_by_type = CountByType(all_entries)]
    /\ outDb' = [written |-> TRUE, data |-> all_entries]
    /\ outSources' = [written |-> TRUE, data |-> sources_info']
    /\ apc' = "done"
    /\ UNCHANGED <<raw, aidx, all_entries, ivars, cvars, fvars>>

NextAgg ==
    \/ AggStart
    \/ AggHadithFile
    \/ AggSubdirFile
    \/ AggFatwaFile
    \/ AggSave

\* Files per directory: MaxFiles in raw/hadith, one fewer in the others.
MaxFiles == 2

\* Contents of a raw file: two good records (one without id); unreadable (or
\* not JSON); a good record and a malformed one; the same good record twice
\* with a record between them that is too short.
FileContents(kind) ==
    { [readable |-> TRUE, records |-> <<RecCurated(kind), RecPlain(kind)>>],
      [readable |-> FALSE, records |-> <<>>],
      [readable |-> TRUE, records |-> <<RecPlain(kind), NotAMapping>>],
      [readable |-> TRUE,
       records |-> <<RecPlain(kind), RecShort(kind), RecPlain(kind)>>] }

\* The files of one directory: contents cs, named after the stage.
NamedFiles(stage, cs) ==
    [k \in DOMAIN cs |->
        [name |-> <<stage, k>>, readable |-> cs[k].readable, records |-> cs[k].records]]

DirListings(stage, max) ==
    UNION { {NamedFiles(stage, cs) : cs \in [1..n -> FileContents(StageKind(stage))]}
            : n \in 0..max }

RawTrees ==
    { [hadithDir |-> hd, fatwaDir |-> fd, hadith |-> h, subdirs |-> s, fatawa |-> f,
       hashSeed |-> seed] :
        hd \in BOOLEAN, fd \in BOOLEAN,
        h \in DirListings("hadith", MaxFiles),
        s \in DirListings("subdirs", MaxFiles - 1),
        f \in DirListings("fatawa", MaxFiles - 1),
        seed \in HashSeeds }

\* A missing directory has no files (lines 210 and 235).
InitAgg ==
    /\ corpus = <<>>
    /\ IndexerIdle
    /\ CleanOff
    /\ FnOff
    /\ raw \in {t \in RawTrees :
                  /\ ~t.hadithDir => t.hadith = <<>> /\ t.subdirs = <<>>
                  /\ ~t.fatwaDir => t.fatawa = <<>>}
    /\ apc = "start"
    /\ aidx = 0
    /\ all_entries = <<>>
    /\ sources_info = <<>>
    /\ outDb = NoFile
    /\ outSources = NoFile

AggSpec == InitAgg /\ [][NextAgg]_vars

\* All files of the tree, in processing order, each with its kind.
AllFiles ==
    Flatten([s \in DOMAIN Stages |->
        [k \in DOMAIN StageFiles(raw, Stages[s]) |->
            [kind |-> StageKind(Stages[s]), file |-> StageFiles(raw, Stages[s])[k]]]])

\* What the unifier returns for the files that could be read, file by file.
EntriesOfReadable ==
    Flatten([k \in DOMAIN AllFiles |->
        IF AllFiles[k].file.readable
        THEN process_file(AllFiles[k].kind, AllFiles[k].file, raw.hashSeed)
        ELSE <<>>])

AggDone ==
    /\ apc = "done"
    /\ outDb.written
    /\ outSources.written

\* The loop iterations still to run, plus the start and the final save.
AggStepsLeft ==
    LET files(s) == Len(StageFiles(raw, Stages[s]))
        later(s) == IF s = 1 THEN files(2) + files(3) ELSE IF s = 2 THEN files(3) ELSE 0
    IN  CASE apc = "start" -> files(1) + later(1) + 2
          [] apc \in Range(Stages) -> (files(StageNumber(apc)) - aidx) + later(StageNumber(apc)) + 1
          [] apc = "save" -> 1
          [] OTHER -> 0

\* The guard of the step at the current position holds.
AggCanStep ==
    \/ apc \in {"start", "save"}
    \/ apc \in Range(Stages) /\ aidx < Len(StageFiles(raw, apc))

\* C13: whatever files are unreadable or unparseable, the run is never stuck
\* before its end and every step brings the end nearer (so it terminates);
\* at the end the corpus file and the statistics file are written, the corpus
\* holds exactly the entries returned for the files that could be read, file
\* by file and in order within each file, and the statistics list every file.
C13_FileDefectsSkipped ==
    /\ [][AggStepsLeft' < AggStepsLeft]_vars
    /\ [](apc # "done" => AggCanStep)
    /\ [](apc = "done" =>
            /\ outDb.written /\ outSources.written
            /\ outDb.data = EntriesOfReadable
            /\ outSources.data.total_entries = Len(EntriesOfReadable)
            /\ Len(outSources.data.hadith_collections)
                  + Len(outSources.data.fatwa_sources) = Len(AllFiles))

\* C13 witness: a finished run over a tree with an unreadable file between
\* two files that yield entries.
C13_Witness ==
    /\ AggDone
    /\ \E a, b, c \in DOMAIN AllFiles :
          /\ a < b /\ b < c
          /\ ~AllFiles[b].file.readable
          /\ process_file(AllFiles[a].kind, AllFiles[a].file, raw.hashSeed) # <<>>
          /\ process_file(AllFiles[c].kind, AllFiles[c].file, raw.hashSeed) # <<>>
    /\ Len(outDb.data) >= 4

\* C14: no two entries of the written corpus share an id.
C14_UniqueIds ==
    outDb.written =>
        \A j, k \in DOMAIN outDb.data :
            outDb.data[j].id = outDb.data[k].id => j = k

\* The sum of the 'count' fields of a list of per-file statistics.
RECURSIVE SumOfCounts(_)
SumOfCounts(stats) ==
    IF stats = <<>> THEN 0 ELSE Head(stats).count + SumOfCounts(Tail(stats))

\* The sum of the values of a mapping from keys to numbers.
RECURSIVE SumOfValues(_)
SumOfValues(counts) ==
    IF DOMAIN counts = {} THEN 0
    ELSE LET key == CHOOSE t \in DOMAIN counts : TRUE
         IN  counts[key] + SumOfValues([t \in DOMAIN counts \ {key} |-> counts[t]])

\* C22: after a run, total_entries of the statistics file is the number of
\* entries in the corpus file, the sum of the per-file counts of
\* hadith_collections and fatwa_sources, and the sum of entries_by_type.
C22_StatisticsConsistent ==
    apc = "done" =>
        /\ outDb.written /\ outSources.written
        /\ outSources.data.total_entries = Len(outDb.data)
        /\ outSources.data.total_entries =
              SumOfCounts(outSources.data.hadith_collections)
              + SumOfCounts(outSources.data.fatwa_sources)
        /\ outSources.data.total_entries = SumOfValues(outSources.data.entries_by_type)

\* C22 witness: a finished run with a file that failed, a file with a record
\* that was excluded, and entries of both types in the corpus.
C22_Witness ==
    /\ apc = "done"
    /\ \E k \in DOMAIN AllFiles : ~AllFiles[k].file.readable
    /\ \E k \in DOMAIN AllFiles :
          \E r \in DOMAIN AllFiles[k].file.records :
              /\ AllFiles[k].file.records[r] = RecShort(AllFiles[k].kind)
              /\ process_file(AllFiles[k].kind, AllFiles[k].file, raw.hashSeed) # <<>>
    /\ DOMAIN outSources.data.entries_by_type = {"hadith", "fatwa"}
    /\ outSources.data.total_entries >= 3

(***************************************************************************)
(* create_embedding_text (generate_embeddings.py).  An entry is a mapping; *)
(* each key is modelled as [has, v]: has = FALSE is a missing key (or a    *)
(* null value, which entry.get(...) followed by a truth test treats the    *)
(* same way), v is the value.                                              *)
(***************************************************************************)
Missing(v) == [has |-> FALSE, v |-> v]

Given(v) == [has |-> TRUE, v |-> v]

\* entry.get(key, default)
Get(field, default) == IF field.has THEN field.v ELSE default

\* The variant that also names the madhab "general".
create_embedding_text_KeepGeneral(entry) ==
    LET question == Get(entry.question, <<>>)
        evidence == Get(entry.evidence, <<>>)
        topics == Get(entry.topics, <<>>)
        madhab == Get(entry.madhab, <<>>)
        parts ==
            (IF question # <<>> THEN <<<<"Q", "u", "e", "s", "t", "i", "o", "n", ":", " ">> \o question>> ELSE <<>>)
            \o <<Get(entry.ruling, <<>>)>>
            \o (IF evidence # <<>>
                THEN <<<<"E", "v", "i", "d", "e", "n", "c", "e", ":", " ">> \o Join(<<" ", "|", " ">>, evidence)>> ELSE <<>>)
            \o (IF topics # <<>>
                THEN <<<<"T", "o", "p", "i", "c", "s", ":", " ">> \o Join(<<",", " ">>, topics)>> ELSE <<>>)
            \o (IF madhab # <<>> THEN <<<<"M", "a", "d", "h", "a", "b", ":", " ">> \o madhab>> ELSE <<>>)
    IN  Join(<<"\n", "\n">>, parts)

create_embedding_text(entry) ==
    LET question == Get(entry.question, <<>>)
        evidence == Get(entry.evidence, <<>>)
        topics == Get(entry.topics, <<>>)
        madhab == Get(entry.madhab, <<>>)
        parts ==
            (IF question # <<>> THEN <<<<"Q", "u", "e", "s", "t", "i", "o", "n", ":", " ">> \o question>> ELSE <<>>)
            \o <<Get(entry.ruling, <<>>)>>
            \o (IF evidence # <<>>
                THEN <<<<"E", "v", "i", "d", "e", "n", "c", "e", ":", " ">> \o Join(<<" ", "|", " ">>, evidence)>> ELSE <<>>)
            \o (IF topics # <<>>
                THEN <<<<"T", "o", "p", "i", "c", "s", ":", " ">> \o Join(<<",", " ">>, topics)>> ELSE <<>>)
            \o (IF madhab # <<>> /\ madhab # <<"g", "e", "n", "e", "r", "a", "l">>
                THEN <<<<"M", "a", "d", "h", "a", "b", ":", " ">> \o madhab>> ELSE <<>>)
    IN  Join(<<"\n", "\n">>, parts)

\* The entries create_embedding_text is applied to: every combination of a
\* missing, empty and non-empty value of each key.
EmbeddingEntries ==
    [question : {Missing(<<>>), Given(<<>>), Given(<<"I", "s", " ", "i", "t", "?">>)},
     ruling   : {Missing(<<>>), Given(<<>>), Given(<<"P", "r", "a", "y", ".">>)},
     evidence : {Missing(<<>>), Given(<<>>), Given(<<<<"B", "u", "k", "h", "a", "r", "i", " ", "1">>>>),
                 Given(<<<<"B", "u", "k", "h", "a", "r", "i", " ", "1">>, <<"[", "2", ":", "2", "5", "5", "]">>>>)},
     topics   : {Missing(<<>>), Given(<<>>), Given(<<<<"p", "r", "a", "y", "e", "r">>>>),
                 Given(<<<<"p", "r", "a", "y", "e", "r">>, <<"f", "a", "s", "t", "i", "n", "g">>>>)},
     madhab   : {Missing(<<>>), Given(<<>>), Given(<<"g", "e", "n", "e", "r", "a", "l">>), Given(<<"h", "a", "n", "a", "f", "i">>)}]

InitEmbeddingText ==
    fin \in [f : {"create_embedding_text"}, entry : EmbeddingEntries]

CallEmbeddingText ==
    /\ fn = "none"
    /\ fin.f = "create_embedding_text"
    /\ fn' = fin.f
    /\ fout' = create_embedding_text(fin.entry)
    /\ UNCHANGED <<fin, ivars, cvars, avars>>

\* A part of the result with the blank line that separates it from the
\* part before it (after = FALSE) or after it (after = TRUE).
LabelledPart(present, label, body, after) ==
    IF ~present THEN <<>>
    ELSE IF after THEN label \o body \o <<"\n", "\n">>
    ELSE <<"\n", "\n">> \o label \o body

\* C18: the text is the question part (only for a non-empty question), the
\* ruling (always, even when empty), the evidence joined by " | " (only when
\* there is evidence), the topics joined by ", " (only when there are
\* topics) and the madhab (only when present and not "general"), in this
\* order and separated by blank lines; the entry is left as it was.
C18_EmbeddingTextLayout ==
    /\ [](fn = "create_embedding_text" =>
            LET e == fin.entry
                q == Get(e.question, <<>>)
                ev == Get(e.evidence, <<>>)
                tp == Get(e.topics, <<>>)
                m == Get(e.madhab, <<>>)
            IN  fout = LabelledPart(q # <<>>, <<"Q", "u", "e", "s", "t", "i", "o", "n", ":", " ">>, q, TRUE)
                       \o Get(e.ruling, <<>>)
                       \o LabelledPart(ev # <<>>, <<"E", "v", "i", "d", "e", "n", "c", "e", ":", " ">>, Join(<<" ", "|", " ">>, ev), FALSE)
                       \o LabelledPart(tp # <<>>, <<"T", "o", "p", "i", "c", "s", ":", " ">>, Join(<<",", " ">>, tp), FALSE)
                       \o LabelledPart(m \notin {<<>>, <<"g", "e", "n", "e", "r", "a", "l">>}, <<"M", "a", "d", "h", "a", "b", ":", " ">>, m, FALSE))
    /\ [][fin.f = "create_embedding_text" => fin' = fin]_vars

\* C18 witness: an entry with all five parts, and the text made of it.
C18_Witness ==
    /\ fn = "create_embedding_text"
    /\ fin.entry.madhab = Given(<<"h", "a", "n", "a", "f", "i">>)
    /\ fout = <<"Q", "u", "e", "s", "t", "i", "o", "n", ":", " ", "I", "s", " ", "i", "t", "?", "\n", "\n", "P", "r", "a", "y", ".", "\n", "\n", "E", "v", "i", "d", "e", "n", "c", "e", ":", " ", "B", "u", "k", "h", "a", "r", "i", " ", "1", " ", "|", " ", "[", "2", ":", "2", "5", "5", "]", "\n", "\n", "T", "o", "p", "i", "c", "s", ":", " ", "p", "r", "a", "y", "e", "r", ",", " ", "f", "a", "s", "t", "i", "n", "g", "\n", "\n", "M", "a", "d", "h", "a", "b", ":", " ", "h", "a", "n", "a", "f", "i">>

(***************************************************************************)
(* The hadith converter (convert_hadith.py) and the path of a hadith       *)
(* through the pipeline: convert_hadith builds an entry, process_collection*)
(* keeps it if it has a ruling, main writes the entries to                 *)
(* data/raw/hadith/all_hadith.json, and process_hadith_file reads that     *)
(* file.  The id keeps the number of the hadith (the collection key before *)
(* it is left out), and the source and authenticity of the entry are left  *)
(* out.                                                                    *)
(***************************************************************************)
\* chapters_map.get(chapter_id, {}).get('english', '')
ChapterName(chapters_map, chapter_id) ==
    IF chapter_id \in DOMAIN chapters_map THEN chapters_map[chapter_id] ELSE <<>>

convert_hadith(hadith, chapters_map) ==
    LET chapter_name == ChapterName(chapters_map, hadith.chapterId)
        narrator == hadith.narrator
        text == hadith.text
        ruling == IF narrator # <<>> /\ text # <<>>
                  THEN narrator \o <<"\n", "\n">> \o text
                  ELSE IF text # <<>> THEN text ELSE hadith.arabic
    IN  [id |-> hadith.id,
         type |-> "hadith",
         ruling |-> Strip(ruling),
         evidence |-> <<>>,
         madhab |-> <<"g", "e", "n", "e", "r", "a", "l">>,
         topics |-> extract_topics_from_chapter(chapter_name),
         arabicText |-> hadith.arabic]

\* process_collection: the entries of the hadiths that have a ruling.
process_collection(hadiths, chapters_map) ==
    SelectSeq([k \in DOMAIN hadiths |-> convert_hadith(hadiths[k], chapters_map)],
              LAMBDA entry : entry.ruling # <<>>)

\* An entry of all_hadith.json as process_hadith_file reads it.
AsRawRecord(entry) ==
    RawRecord(entry.id, "str", entry.ruling, "list",
              [k \in DOMAIN entry.topics |-> Topic(entry.topics[k])], entry.evidence)

\* The converter followed by the unifier: what the converter wrote and what
\* the unifier makes of it.
HadithPipeline(hadiths, chapters_map, hashSeed) ==
    LET converted == process_collection(hadiths, chapters_map)
        file == [name |-> <<"hadith", 1>>, readable |-> TRUE,
                 records |-> [k \in DOMAIN converted |-> AsRawRecord(converted[k])]]
    IN  [converted |-> converted,
         processed |-> process_hadith_file(file, hashSeed)]

\* Raw hadiths: with and without narrator, text and Arabic text, in chapter 3
\* or in a chapter the collection does not list.
RawHadiths ==
    [id : {1}, chapterId : {3, 7},
     narrator : {<<>>, <<"N", "a", "r", "r", "a", "t", "e", "d", " ", "A", "i", "s", "h", "a", ":">>},
     text : {<<>>, <<"P", "r", "a", "y", ".">>, <<"T", "h", "e", " ", "P", "r", "o", "p", "h", "e", "t", " ", "s", "a", "i", "d", " ", ".", ".", ".">>},
     arabic : {<<>>, <<"U+0642", "U+0627", "U+0644">>}]

ChapterMaps ==
    {(3 :> name) : name \in {<<"T", "h", "e", " ", "B", "o", "o", "k", " ", "o", "f", " ", "P", "r", "a", "y", "e", "r">>, <<"T", "h", "e", " ", "B", "o", "o", "k", " ", "o", "f", " ", "H", "a", "j", "j">>, <<"W", "i", "l", "l", "s">>, <<>>}}

InitHadithPipeline ==
    fin \in [f : {"hadith_pipeline"}, hadith : RawHadiths, chapters_map : ChapterMaps,
             hashSeed : HashSeeds]

CallHadithPipeline ==
    /\ fn = "none"
    /\ fin.f = "hadith_pipeline"
    /\ fn' = fin.f
    /\ fout' = HadithPipeline(<<fin.hadith>>, fin.chapters_map, fin.hashSeed)
    /\ UNCHANGED <<fin, ivars, cvars, avars>>

\* C19: for a hadith with a narrator and a text, the entry the pipeline
\* produces has a ruling that begins with the narrator, a blank line and the
\* text, and its topics are those classified from the english name of the
\* hadith's chapter.
C19_HadithRulingLayout ==
    (/\ fn = "hadith_pipeline"
     /\ fin.hadith.narrator # <<>>
     /\ fin.hadith.text # <<>>) =>
        \A k \in DOMAIN fout.processed :
            /\ StartsAt(fout.processed[k].ruling, 1,
                        fin.hadith.narrator \o <<"\n", "\n">> \o fin.hadith.text)
            /\ fout.processed[k].topics =
                  extract_topics_from_chapter(
                      ChapterName(fin.chapters_map, fin.hadith.chapterId))

\* The ruling half of C19 as the converter alone meets it.
ConverterKeepsBlankLine ==
    (/\ fn = "hadith_pipeline"
     /\ fin.hadith.narrator # <<>>
     /\ fin.hadith.text # <<>>) =>
        /\ Len(fout.converted) = 1
        /\ fout.converted[1].ruling =
              fin.hadith.narrator \o <<"\n", "\n">> \o fin.hadith.text
        /\ fout.converted[1].topics =
              extract_topics_from_chapter(
                  ChapterName(fin.chapters_map, fin.hadith.chapterId))

InitFn ==
    /\ corpus = <<>>
    /\ IndexerIdle
    /\ CleanOff
    /\ AggOff
    /\ fn = "none"
    /\ fout = <<>>
    /\ \/ InitExtractEvidence
       \/ InitProcessFile
       \/ InitClassify
       \/ InitEmbeddingText
       \/ InitHadithPipeline

NextFn ==
    \/ CallExtractEvidence
    \/ CallProcessFile
    \/ CallTopicsFromChapter
    \/ CallTopicsFromTitle
    \/ CallEmbeddingText
    \/ CallHadithPipeline

FnSpec == InitFn /\ [][NextFn]_vars

====
